---- MODULE Spec2Model ----
(***************************************************************************)
(* Model of the postmarks ActivityPub engine: the SQLite-backed store      *)
(* (activitypub db module), the activity builder, the signer and the       *)
(* broadcaster, the remote actor resolver and the collection routes.       *)
(* Every async function is split at its awaits: one action per resumption, *)
(* so that store changes made by other handlers can fall between two steps *)
(* of the same call.  Spec is the store with the broadcaster; SpecFollow,  *)
(* SpecSigner, SpecRender, SpecResolver and SpecStore apply the follow     *)
(* builders, the signer, the routes, the resolver and the read accessors   *)
(* on their own over the same store.                                       *)
(*                                                                         *)
(* JavaScript values are tagged records: Undef, Null, Str(..), Uri(..).    *)
(* A string that the code only splits on "\n" is kept as the sequence of   *)
(* its lines; a string matched against the handle regex is kept as a       *)
(* sequence of tokens, "@" being a token of its own; a URI is kept as the  *)
(* sequence of its "/"-separated segments.                                 *)
(***************************************************************************)
EXTENDS Integers, Sequences, FiniteSets, TLC

\* ------------------------------------------------------------------ bounds
MaxGuid == 5          \* random guids drawn over a run
MaxBookmarkId == 1    \* bookmark ids are 1..MaxBookmarkId (0 is the global permission row)
MaxTasks == 2         \* signAndSend tasks started by direct calls
MaxBookmarks == 25    \* bookmarks the site holds when the outbox is requested
MaxPage == 2          \* page numbers asked of the outbox
MaxLinks == 2         \* entries of a WebFinger links array
MaxTags == 2          \* tags of a bookmark

\* ------------------------------------------------------------- JS values
Undef == [k |-> "undefined"]
Null == [k |-> "null"]
Str(v) == [k |-> "string", v |-> v]
Num(v) == [k |-> "number", v |-> v]
Arr(v) == [k |-> "array", v |-> v]
Uri(path) == [k |-> "uri", path |-> path]

Range(s) == {s[i] : i \in 1..Len(s)}

\* the deployment's account and domain (util.js exports)
account == "bookmarks"
domain == "postmarks.example"

\* crypto.randomBytes(16).toString("hex"): the n-th value drawn
GuidNames == <<"g1", "g2", "g3", "g4", "g5", "g6", "g7", "g8">>
randomGuid(n) == GuidNames[n]

\* `https://${domain}/u/${account}`
ActorUri(d, a) == Uri(<<"https:", "", d, "u", a>>)

\* template interpolation of a guid that may be undefined
Interpolate(guid) == IF guid = Undef THEN "undefined" ELSE guid.v

\* `https://${domain}/m/${guid}`
Permalink(d, guid) == Uri(<<"https:", "", d, "m", Interpolate(guid)>>)

\* urlString.match(/(?:\/m\/)([a-zA-Z0-9+/]+)/)[1]: the segment after the first "/m/"
getGuidFromPermalink(urlString) ==
  LET p == urlString.path
      hits == {i \in 2..(Len(p) - 1) : p[i] = "m"}
      first == CHOOSE i \in hits : \A j \in hits : i <= j
  IN Str(p[first + 1])

\* ------------------------------------------------------ remote actors
FollowerLists ==
  { Arr(<<>>),
    Arr(<<ActorUri("evil.example", "bad"), ActorUri("good.example", "x")>>) }

\* lines of a `blocked` permission text, as token sequences
LineBad == <<"@", "bad", "@", "evil.example">>
LineNoAt == <<"bad", "@", "evil.example">>
BlockedTexts == { Str(<<LineBad>>), Str(<<LineNoAt, LineBad>>) }

\* bookmarks: {id, url}; the url of a bookmark may be a remote actor's URI
BookmarkIds == 1..MaxBookmarkId
\* a tags text is kept as its pieces between spaces, each piece as its first
\* character and the rest: "#a #b" is <<TagA, TagB>>, "" is <<NoTag>>
TagA == [sigil |-> "#", name |-> "a"]
TagB == [sigil |-> "#", name |-> "b"]
NoTag == [sigil |-> "", name |-> ""]
Bookmark(id) ==
  [ id |-> id, url |-> ActorUri("good.example", "x"), title |-> Str("title"),
    description |-> Str("description"), tags |-> Str(<<TagA, TagB>>) ]

Actions == {"create", "update", "delete", "boost"}
\* accounts.privkey is whatever text the database file holds: the PEM that first-time
\* setup generated, or a text crypto cannot sign with
PrivKeys == {Str("pem"), Str("not a key")}

VARIABLES
  disabled,     \* actorInfo.disabled
  db,           \* the module-level handle: "undefined" until setup's open() resolves
  followers,    \* accounts.followers: Null or Str(list), the JSON text of a list
  privkey,      \* accounts.privkey
  permissions,  \* permissions table: bookmark_id -> Undef (no row) or [blocked |-> ..]
  messages,     \* messages table, in rowid order: [guid, bookmark_id, message]
  pending,      \* insertMessage statements issued without await, not yet executed
  nextGuid,     \* number of random guids drawn so far
  call,         \* the broadcastMessage invocation: its position and local variables
  deliveries,   \* the signAndSend tasks the invocation started, in start order
  undo,         \* the last createUnfollowMessage invocation and its result
  out           \* the last request served or function applied, and what it returned

vars ==
  <<disabled, db, followers, privkey, permissions, messages, pending, nextGuid, call,
    deliveries, undo, out>>

store == <<followers, privkey, permissions, messages, pending>>

\* ------------------------------------------------------------ the store
\* db is the module's handle with what the database file holds so far: "undefined"
\* until open() resolves; "empty" once the handle is assigned on a new file;
\* "accounts", "messages", "tables" as firstTimeSetup creates the three tables;
\* "open" when the tables and the account row exist
HasAccounts == db \in {"accounts", "messages", "tables", "open"}
HasMessages == db \in {"messages", "tables", "open"}
HasPermissions == db \in {"tables", "open"}
HasRow == db = "open"
\* the rejection of a statement on a table that does not exist
SqliteError == [k |-> "SQLITE_ERROR"]

\* JSON.stringify / JSON.parse of the values the code passes through them
JSONstringify(obj) == Str(<<"json", obj>>)
SyntaxError == [k |-> "SyntaxError"]
JSONparse(text) ==
  IF text = Undef THEN SyntaxError
  ELSE IF text = Null THEN Null
  ELSE text.v[2]

\* select followers from accounts limit 1
getFollowers ==
  IF db = "undefined" THEN Undef
  ELSE IF ~HasAccounts THEN SqliteError
  ELSE IF ~HasRow THEN Undef
  ELSE followers

\* select privkey from accounts limit 1
getPrivateKey ==
  IF db = "undefined" THEN Undef
  ELSE IF ~HasAccounts THEN SqliteError
  ELSE IF ~HasRow THEN Undef
  ELSE privkey

\* select * from permissions where bookmark_id = ?
getPermissionsForBookmark(id) ==
  IF db = "undefined" THEN Undef
  ELSE IF ~HasPermissions THEN SqliteError
  ELSE permissions[id]

\* select * from permissions where bookmark_id = 0
getGlobalPermissions == getPermissionsForBookmark(0)

\* select guid from messages where bookmark_id = ?  (db.get returns one matching row;
\* without ORDER BY any of the matching rows may be the one returned)
RowsForBookmark(id) == SelectSeq(messages, LAMBDA r : r.bookmark_id = Num(id))
getGuidForBookmarkId(id) ==
  IF db = "undefined" THEN {Undef}
  ELSE IF ~HasMessages THEN {SqliteError}
  ELSE IF RowsForBookmark(id) = <<>> THEN {Undef}
  ELSE {r.guid : r \in Range(RowsForBookmark(id))}

findMessageGuid(id) == getGuidForBookmarkId(id)

\* insert or replace into messages(guid, bookmark_id, message)
InsertOrReplace(rows, r) == SelectSeq(rows, LAMBDA x : x.guid # r.guid) \o <<r>>

\* delete from messages where guid = ?
DeleteByGuid(rows, guid) == SelectSeq(rows, LAMBDA x : x.guid # guid)

\* select * from messages where message like '%object%': the rows whose JSON text
\* holds the object's text as a substring
IsInfix(n, h) == \E i \in 0..(Len(h) - Len(n)) : SubSeq(h, i + 1, i + Len(n)) = n
MessageUris(m) ==
  IF m.type = "Follow" THEN {m.actor, m.object}
  ELSE IF m.type = "Note" THEN {m.id, m.attributedTo, m.url}
  ELSE {}
Like(text, object) ==
  text # Null /\ \E u \in MessageUris(JSONparse(text)) : IsInfix(object.path, u.path)
findMessage(object) ==
  IF db = "undefined" THEN Undef
  ELSE IF ~HasMessages THEN SqliteError
  ELSE Arr(SelectSeq(messages, LAMBDA r : Like(r.message, object)))

\* actorJson(name, domain, actorInfo, pubkey): the served actor document
actorJson(name, dom) ==
  [ id |-> ActorUri(dom, name),
    type |-> "Person",
    inbox |-> Uri(<<"https:", "", dom, "api", "inbox">>),
    outbox |-> Uri(<<"https:", "", dom, "u", name, "outbox">>),
    followers |-> Uri(<<"https:", "", dom, "u", name, "followers">>),
    following |-> Uri(<<"https:", "", dom, "u", name, "following">>) ]

\* ----------------------------------------------------- activity builder
\* createNoteObject(bookmark, account, domain), guidNote being the n-th random value
\* `https://${domain}/tagged/${tag.slice(1)}`
TagHref(dom, tag) == Uri(<<"https:", "", dom, "tagged", tag.name>>)

\* bookmark.tags?.split(" ")
SplitTags(tags) == IF tags \in {Undef, Null} THEN <<>> ELSE tags.v

\* linkedTags: one anchor per piece of the tags text (the join(" ") keeps their order)
linkedTags(bookmark, dom) ==
  [ i \in 1..Len(SplitTags(bookmark.tags)) |->
      [ el |-> "a", href |-> TagHref(dom, SplitTags(bookmark.tags)[i]),
        text |-> SplitTags(bookmark.tags)[i] ] ]

\* content: the title link, <br/>, and the description or ''
NoteContent(bookmark) ==
  << [el |-> "a", href |-> bookmark.url, text |-> bookmark.title],
     [el |-> "br"],
     [el |-> "text", text |-> IF bookmark.description \in {Undef, Null} THEN Str("")
                              ELSE bookmark.description] >>

\* noteMessage.tag after the forEach over the pieces of the tags text
NoteTag(bookmark, dom) ==
  [ i \in 1..Len(SplitTags(bookmark.tags)) |->
      [ type |-> "Hashtag", href |-> TagHref(dom, SplitTags(bookmark.tags)[i]),
        name |-> SplitTags(bookmark.tags)[i] ] ]

\* (url is the href of the content's title link, kept apart for the like-search)
createNoteObject(bookmark, acct, dom, n) ==
  [ type |-> "Note",
    id |-> Permalink(dom, Str(randomGuid(n))),
    attributedTo |-> ActorUri(dom, acct),
    url |-> bookmark.url,
    content |-> NoteContent(bookmark),
    tag |-> NoteTag(bookmark, dom) ]

\* createMessage: the Create activity, guidCreate being the n-th random value
createMessage(noteObject, acct, dom, n) ==
  [ type |-> "Create",
    id |-> Permalink(dom, Str(randomGuid(n))),
    actor |-> ActorUri(dom, acct),
    object |-> noteObject ]

\* createMessage with the bookmark id left out of the insertMessage call
createMessageRowNoBookmark(noteObject, bookmarkId) ==
  [ k |-> "row",
    guid |-> getGuidFromPermalink(noteObject.id),
    bookmark_id |-> Null,
    message |-> JSONstringify(noteObject) ]

\* createMessage: the row it hands to db.insertMessage
createMessageRow(noteObject, bookmarkId) ==
  [ k |-> "row",
    guid |-> getGuidFromPermalink(noteObject.id),
    bookmark_id |-> Num(bookmarkId),
    message |-> JSONstringify(noteObject) ]

\* createUpdateMessage: the activity, note being the new Note or the permalink
updateMessage(note, acct, dom) ==
  [ type |-> "Create", actor |-> ActorUri(dom, acct), object |-> note ]

\* createDeleteMessage: the activity for the guid findMessageGuid returned
deleteMessage(guid, acct, dom) ==
  [ type |-> "Delete",
    id |-> Permalink(dom, guid),
    actor |-> ActorUri(dom, acct),
    object |-> [type |-> "Tombstone", id |-> Permalink(dom, guid)] ]

\* --------------------------------------------------------- broadcaster
\* x.match(/^@([^@]+)@(.+)$/): Null when the line does not match, else the two groups
HandleMatch(line) ==
  LET splits == {i \in 3..(Len(line) - 1) :
                   line[i] = "@" /\ \A j \in 2..(i - 1) : line[j] # "@"}
  IN IF Len(line) >= 4 /\ line[1] = "@" /\ splits # {}
     THEN LET i == CHOOSE i \in splits : TRUE
          IN [user |-> SubSeq(line, 2, i - 1), domain |-> SubSeq(line, i + 1, Len(line))]
     ELSE Null

\* text.split("\n")
Split(text) == [i \in 1..Len(text.v) |-> Str(text.v[i])]

\* permissions?.blocked?.split("\n"): Undef when the row or the column is missing
BlockedLines(perm) ==
  IF perm = Undef THEN Undef
  ELSE IF perm.blocked = Null THEN Undef
  ELSE Arr(Split(perm.blocked))

\* a.concat(x): x's elements when x is an array, x itself otherwise
Concat(a, x) == IF x.k = "array" THEN a \o x.v ELSE a \o <<x>>

\* the callback of the blocklist filter: !x?.match(/^@([^@]+)@(.+)$/)
BlocklistKeeps(x) == IF x = Undef THEN TRUE ELSE HandleMatch(x.v) = Null

\* the blocklist broadcastMessage builds from the two permission rows
Blocklist(bookmarkPermissions, globalPermissions) ==
  IF BlockedLines(bookmarkPermissions) = Undef
  THEN <<>>
  ELSE SelectSeq(Concat(BlockedLines(bookmarkPermissions).v, BlockedLines(globalPermissions)),
                 BlocklistKeeps)

\* actorMatchesUsername(actor, username) of util.js: the actor URI is
\* https://{domain}/u/{user} for the username @user@domain
actorMatchesUsername(actor, username) ==
  /\ username # Undef
  /\ HandleMatch(username.v) # Null
  /\ LET m == HandleMatch(username.v)
     IN actor.path = <<"https:", "">> \o m.domain \o <<"u">> \o m.user

\* blocklist.forEach(...) evaluates actorMatchesUsername for each entry and returns undefined
ForEachMatches(actor, blocklist) == Undef

\* the callback of followers.filter: !matches?.some((x) => x)
FollowerFilterKeeps(actor, blocklist) ==
  LET matches == ForEachMatches(actor, blocklist)
  IN IF matches = Undef THEN TRUE ELSE ~(\E i \in 1..Len(matches.v) : matches.v[i])

\* followers.filter(...): the array the filter expression evaluates to
FilteredFollowers(fl, blocklist) ==
  SelectSeq(fl, LAMBDA actor : FollowerFilterKeeps(actor, blocklist))

\* the followers the delivery loop iterates: the `followers` array itself, the value of
\* the filter expression not being assigned to anything
LoopFollowers(fl, blocklist) == fl

\* one signAndSend(message, account, domain, db, targetDomain, inbox) task as the
\* delivery loop starts it: inbox = follower + "/inbox", targetDomain = URL(follower).host
SignAndSendTask(follower, message) ==
  [ follower |-> follower,
    inbox |-> Uri(follower.path \o <<"inbox">>),
    targetDomain |-> follower.path[3],
    message |-> message,
    status |-> "getPrivateKey",
    stringToSign |-> Undef,
    request |-> Undef ]

\* the delivery loop with each signAndSend awaited before the next is started
StartDeliveriesAwaited(fl, message) ==
  [ i \in 1..Len(fl) |-> [SignAndSendTask(fl[i], message) EXCEPT !.status = "sent"] ]

\* the signAndSend tasks the delivery loop starts, one per follower, none awaited
StartDeliveries(fl, message) ==
  [ i \in 1..Len(fl) |-> SignAndSendTask(fl[i], message) ]

NoCall ==
  [ pc |-> "idle", bookmark |-> 0, action |-> "", followers |-> Undef,
    bookmarkPermissions |-> Undef, globalPermissions |-> Undef, blocklist |-> <<>>,
    guid |-> Undef, message |-> Undef, inserted |-> <<>>, deleted |-> <<>> ]

\* the handle's run(): nothing happens while db is undefined (db?.run)
Issue(rows) == IF HasMessages THEN pending \cup Range(rows) ELSE pending

NoOut == [k |-> "none"]

NoUndo ==
  [ called |-> FALSE, target |-> Undef, outcome |-> "", messageRows |-> Undef,
    followMessages |-> Undef, result |-> Undef ]

\* ------------------------------------------------------------- actions
Init ==
  /\ disabled \in BOOLEAN
  /\ db = "undefined"
  /\ followers = Null
  /\ privkey \in PrivKeys
  /\ permissions = [id \in 0..MaxBookmarkId |-> Undef]
  /\ messages = <<>>
  /\ pending = {}
  /\ nextGuid = 0
  /\ call = NoCall
  /\ deliveries = <<>>
  /\ undo = NoUndo
  /\ out = NoOut

\* setup() when the database file exists: open() resolves and assigns the handle,
\* unless federation is disabled
Setup ==
  /\ ~disabled
  /\ db = "undefined"
  /\ db' = "open"
  /\ UNCHANGED <<out, disabled, followers, privkey, permissions, messages, pending, nextGuid,
                 call, deliveries, undo>>

\* setup() when the database file does not exist: open() creates an empty file and
\* the handle is assigned before firstTimeSetup has run
SetupNewFile ==
  /\ ~disabled
  /\ db = "undefined"
  /\ messages = <<>>
  /\ db' = "empty"
  /\ UNCHANGED <<out, disabled, followers, privkey, permissions, messages, pending, nextGuid,
                 call, deliveries, undo>>

\* firstTimeSetup: the next CREATE TABLE statement has run
NextTable(stage) ==
  IF stage = "empty" THEN "accounts" ELSE IF stage = "accounts" THEN "messages" ELSE "tables"
FirstTimeSetupTable ==
  /\ db \in {"empty", "accounts", "messages"}
  /\ db' = NextTable(db)
  /\ UNCHANGED <<out, disabled, followers, privkey, permissions, messages, pending, nextGuid,
                 call, deliveries, undo>>

\* firstTimeSetup: the key pair is generated and the account row is inserted
FirstTimeSetupAccount ==
  /\ db = "tables"
  /\ db' = "open"
  /\ privkey' = Str("pem")
  /\ followers' = Null
  /\ UNCHANGED <<out, disabled, permissions, messages, pending, nextGuid, call, deliveries,
                 undo>>

\* setFollowers(followersJson): update accounts set followers = ?
\* (the follower and permission writes are taken before the first broadcast: a
\* broadcast keeps what it read in its locals)
SetFollowers(list) ==
  /\ HasRow
  /\ call.pc = "idle"
  /\ followers' = JSONstringify(list)
  /\ UNCHANGED <<out, disabled, db, privkey, permissions, messages, pending, nextGuid, call,
                 deliveries, undo>>

\* setPermissionsForBookmark(id, allowed, blocked); id 0 is setGlobalPermissions
SetPermissionsForBookmark(id, blocked) ==
  /\ HasPermissions
  /\ call.pc = "idle"
  /\ permissions' = [permissions EXCEPT ![id] = [blocked |-> blocked]]
  /\ UNCHANGED <<out, disabled, db, followers, privkey, messages, pending, nextGuid, call,
                 deliveries, undo>>

\* an insertMessage statement that was issued without await is executed
ApplyInsert(r) ==
  /\ r \in pending
  /\ messages' = InsertOrReplace(messages, r)
  /\ pending' = pending \ {r}
  /\ UNCHANGED <<out, disabled, db, followers, privkey, permissions, nextGuid, call,
                 deliveries, undo>>

\* broadcastMessage is called: it returns at once when federation is disabled, and
\* otherwise awaits db.getFollowers()
BroadcastCall(b, action) ==
  /\ call.pc \in {"idle", "returned", "threw"}
  /\ call' = [NoCall EXCEPT !.pc = IF disabled THEN "returned" ELSE "getFollowers",
                            !.bookmark = b, !.action = action]
  /\ deliveries' = <<>>
  /\ UNCHANGED <<out, disabled, db, followers, privkey, permissions, messages, pending,
                 nextGuid, undo>>

\* getFollowers has answered: JSON.parse(result), then the null test
BroadcastGotFollowers ==
  /\ call.pc = "getFollowers"
  /\ LET result == getFollowers
         parsed == IF result = SqliteError THEN SqliteError ELSE JSONparse(result)
     IN call' = [call EXCEPT !.followers = parsed,
                             !.pc = IF parsed \in {SqliteError, SyntaxError} THEN "threw"
                                    ELSE IF parsed = Null THEN "returned"
                                    ELSE "getPermissionsForBookmark"]
  /\ UNCHANGED <<out, disabled, db, followers, privkey, permissions, messages, pending,
                 nextGuid, deliveries, undo>>

\* getPermissionsForBookmark(bookmark.id) has answered
BroadcastGotBookmarkPermissions ==
  /\ call.pc = "getPermissionsForBookmark"
  /\ call' = [call EXCEPT !.bookmarkPermissions = getPermissionsForBookmark(call.bookmark),
                          !.pc = "getGlobalPermissions"]
  /\ UNCHANGED <<out, disabled, db, followers, privkey, permissions, messages, pending,
                 nextGuid, deliveries, undo>>

\* the end of a broadcast: the delivery loop over the followers, then the return
Deliver(c, message) ==
  /\ call' = [c EXCEPT !.message = message, !.pc = "returned"]
  /\ deliveries' = StartDeliveries(LoopFollowers(c.followers.v, c.blocklist), message)

\* getGlobalPermissions has answered: the blocklist, the follower filter, the Note
\* object, and the dispatch on the action
BroadcastGotGlobalPermissions ==
  /\ call.pc = "getGlobalPermissions"
  /\ LET globalPermissions == getGlobalPermissions
         blocklist == Blocklist(call.bookmarkPermissions, globalPermissions)
         c == [call EXCEPT !.globalPermissions = globalPermissions,
                           !.blocklist = blocklist]
         noteObject == createNoteObject(Bookmark(call.bookmark), account, domain, nextGuid + 1)
     IN CASE call.action = "create" ->
               /\ nextGuid + 2 <= MaxGuid
               /\ nextGuid' = nextGuid + 2
               /\ pending' = Issue(<<createMessageRow(noteObject, call.bookmark)>>)
               /\ Deliver([c EXCEPT !.inserted = <<createMessageRow(noteObject, call.bookmark)>>],
                          createMessage(noteObject, account, domain, nextGuid + 2))
          [] call.action = "update" ->
               /\ nextGuid + 1 <= MaxGuid
               /\ nextGuid' = nextGuid + 1
               /\ call' = [c EXCEPT !.pc = "getGuidForBookmarkId"]
               /\ UNCHANGED <<pending, deliveries>>
          [] call.action = "delete" ->
               /\ nextGuid + 1 <= MaxGuid
               /\ nextGuid' = nextGuid + 1
               /\ call' = [c EXCEPT !.pc = "findMessageGuid"]
               /\ UNCHANGED <<pending, deliveries>>
          [] OTHER ->
               /\ nextGuid + 1 <= MaxGuid
               /\ nextGuid' = nextGuid + 1
               /\ call' = [c EXCEPT !.pc = "returned"]
               /\ UNCHANGED <<pending, deliveries>>
  /\ UNCHANGED <<out, disabled, db, followers, privkey, permissions, messages, undo>>

\* createUpdateMessage after getGuidForBookmarkId has answered, then the delivery loop
UpdateGotGuid ==
  /\ call.pc = "getGuidForBookmarkId"
  /\ \E guid \in getGuidForBookmarkId(call.bookmark) :
       LET c == [call EXCEPT !.guid = guid]
           note == createNoteObject(Bookmark(call.bookmark), account, domain, nextGuid + 1)
       IN IF guid = Undef
          THEN /\ nextGuid + 2 <= MaxGuid
               /\ nextGuid' = nextGuid + 2
               /\ pending' = Issue(<<createMessageRow(note, call.bookmark)>>)
               /\ Deliver([c EXCEPT !.inserted = <<createMessageRow(note, call.bookmark)>>],
                          updateMessage(note, account, domain))
          ELSE /\ Deliver(c, updateMessage(Permalink(domain, guid), account, domain))
               /\ UNCHANGED <<nextGuid, pending>>
  /\ UNCHANGED <<out, disabled, db, followers, privkey, permissions, messages, undo>>

\* createDeleteMessage after findMessageGuid has answered: db.deleteMessage(guid) is awaited
DeleteGotGuid ==
  /\ call.pc = "findMessageGuid"
  /\ \E guid \in findMessageGuid(call.bookmark) :
       call' = [call EXCEPT !.guid = guid, !.pc = "deleteMessage"]
  /\ UNCHANGED <<out, disabled, db, followers, privkey, permissions, messages, pending,
                 nextGuid, deliveries, undo>>

\* deleteMessage(guid) has run: the Delete activity, then the delivery loop
DeleteDone ==
  /\ call.pc = "deleteMessage"
  /\ messages' = DeleteByGuid(messages, call.guid)
  /\ Deliver([call EXCEPT !.deleted = SelectSeq(messages, LAMBDA r : r.guid = call.guid)],
             deleteMessage(call.guid, account, domain))
  /\ UNCHANGED <<out, disabled, db, followers, privkey, permissions, pending, nextGuid, undo>>

\* ---------------------------------------------------------------- signer
\* signer.sign(privkey) throws when the stored text is not a private key
SignThrows(key) == key # Str("pem")

\* inbox.replace("https://" + targetDomain, ""): the first occurrence is removed, which
\* for a URL is its "https://host" prefix when the text has one; the rest starts with "/"
InboxFragment(inbox, targetDomain) ==
  LET p == inbox.path
  IN IF Len(p) >= 3 /\ p[1] = "https:" /\ p[2] = "" /\ p[3] = targetDomain
     THEN <<"">> \o SubSeq(p, 4, Len(p))
     ELSE p

\* crypto.createHash("sha256").update(text).digest("base64")
Sha256(text) == [k |-> "sha256", of |-> text]

\* new Date().toUTCString() for the instant the key lookup answered
UTCString == Str("date")

\* the signing string, line by line
StringToSign(task) ==
  [ requestTarget |-> <<"post", InboxFragment(task.inbox, task.targetDomain)>>,
    host |-> task.targetDomain,
    date |-> UTCString,
    digest |-> Sha256(JSONstringify(task.message)) ]

\* signer.sign(privkey) over the signing string
RsaSha256(key, text) == [k |-> "rsa-sha256", key |-> key, of |-> text]

\* the Signature header
SignatureHeader(name, dom, key, text) ==
  [ keyId |-> ActorUri(dom, name),
    algorithm |-> "rsa-sha256",
    headers |-> <<"(request-target)", "host", "date", "digest">>,
    signature |-> RsaSha256(key, text) ]

\* fetch(inbox, {headers, method, body})
Request(task, name, dom, key) ==
  [ url |-> task.inbox,
    method |-> "POST",
    Host |-> task.targetDomain,
    Date |-> UTCString,
    Digest |-> Sha256(JSONstringify(task.message)),
    Signature |-> SignatureHeader(name, dom, key, StringToSign(task)),
    body |-> JSONstringify(task.message) ]

\* the task after db.getPrivateKey has answered with key
AfterKey(task, key) ==
  IF key = SqliteError THEN [task EXCEPT !.status = "rejected"]
  ELSE IF key = Undef THEN [task EXCEPT !.status = "no key"]
  ELSE IF SignThrows(key)
    THEN [task EXCEPT !.status = "rejected", !.stringToSign = StringToSign(task)]
  ELSE [task EXCEPT !.status = "fetch", !.stringToSign = StringToSign(task),
                    !.request = Request(task, account, domain, key)]

\* signAndSend is called by another module with the arguments the delivery loop
\* would pass for this follower
SignAndSendCall(follower, message) ==
  /\ Len(deliveries) < MaxTasks
  /\ deliveries' = Append(deliveries, SignAndSendTask(follower, message))
  /\ UNCHANGED <<out, disabled, db, followers, privkey, permissions, messages, pending,
                 nextGuid, call, undo>>

\* signAndSend after getPrivateKey has answered: no key is logged and the task returns;
\* otherwise digest and signature are computed (outside the try) and fetch is started
SignAndSendGotKey(i) ==
  /\ i \in 1..Len(deliveries)
  /\ deliveries[i].status = "getPrivateKey"
  /\ deliveries' = [deliveries EXCEPT ![i] = AfterKey(deliveries[i], getPrivateKey)]
  /\ UNCHANGED <<out, disabled, db, followers, privkey, permissions, messages, pending,
                 nextGuid, call, undo>>

\* the fetch settles: a response (of any status) is logged, a network error is caught
FetchSettles(i, ok) ==
  /\ i \in 1..Len(deliveries)
  /\ deliveries[i].status = "fetch"
  /\ deliveries' = [deliveries EXCEPT ![i].status = IF ok THEN "sent" ELSE "caught"]
  /\ UNCHANGED <<out, disabled, db, followers, privkey, permissions, messages, pending,
                 nextGuid, call, undo>>

\* ------------------------------------------------------- follow / unfollow
Targets ==
  { ActorUri("good.example", "x"),
    Uri(<<"https:", "", "good.example", "u", "x", "alt">>) }

\* createFollowMessage(account, domain, target, db), guid being the n-th random value
followMessage(acct, dom, target, n) ==
  [ type |-> "Follow",
    id |-> Str(randomGuid(n)),
    actor |-> ActorUri(dom, acct),
    object |-> target ]

CreateFollowMessage(target) ==
  /\ nextGuid + 1 <= MaxGuid
  /\ nextGuid' = nextGuid + 1
  /\ pending' = Issue(<<[ k |-> "row",
                          guid |-> Str(randomGuid(nextGuid + 1)),
                          bookmark_id |-> Null,
                          message |-> JSONstringify(
                            followMessage(account, domain, target, nextGuid + 1)) ]>>)
  /\ UNCHANGED <<out, disabled, db, followers, privkey, permissions, messages, call,
                 deliveries, undo>>

\* the filter callback without its comparison of message.object with the target
IsFollowOfAnyTarget(row, target) ==
  LET message == IF row.message = Null THEN [type |-> "", object |-> Undef]
                 ELSE JSONparse(row.message)
  IN message.type = "Follow"

\* the callback of messageRows.filter: JSON.parse(row.message || "{}"), then the test
IsFollowOf(row, target) ==
  LET message == IF row.message = Null THEN [type |-> "", object |-> Undef]
                 ELSE JSONparse(row.message)
  IN message.type = "Follow" /\ message.object = target

\* JSON.parse(row.message || "{}") throws on a text that is not JSON
ParseThrows(row) == row.message # Null /\ row.message.v[1] # "json"

\* messageRows?.filter(...)
followMessages(messageRows, target) ==
  IF messageRows = Undef THEN Undef
  ELSE Arr(SelectSeq(messageRows.v, LAMBDA row : IsFollowOf(row, target)))

\* followMessages.slice(-1)
SliceLast(a) == Arr(IF a.v = <<>> THEN <<>> ELSE <<a.v[Len(a.v)]>>)

\* property access obj.message
MessageOf(obj) == IF obj.k = "row" THEN obj.message ELSE Undef

\* createUnfollowMessage: the Undo it returns, or null
undoMessage(fm, acct, dom, n) ==
  IF fm # Undef /\ Len(fm.v) > 0
  THEN [ type |-> "Undo",
         id |-> Str(randomGuid(n)),
         actor |-> Uri(<<dom, "u", acct>>),
         object |-> MessageOf(SliceLast(fm)) ]
  ELSE Null

CreateUnfollowMessage(target) ==
  /\ nextGuid + 1 <= MaxGuid
  /\ nextGuid' = nextGuid + 1
  /\ UNCHANGED <<out, disabled, db, followers, privkey, permissions, messages, pending, call,
                 deliveries>>
  /\ LET messageRows == findMessage(target)
         fm == followMessages(messageRows, target)
     IN IF \/ messageRows = SqliteError
           \/ /\ messageRows # Undef
              /\ \E i \in 1..Len(messageRows.v) : ParseThrows(messageRows.v[i])
        THEN undo' = [ called |-> TRUE, target |-> target, outcome |-> "threw",
                       messageRows |-> messageRows, followMessages |-> Undef,
                       result |-> Undef ]
        ELSE undo' = [ called |-> TRUE, target |-> target, outcome |-> "returned",
                       messageRows |-> messageRows, followMessages |-> fm,
                       result |-> undoMessage(fm, account, domain, nextGuid + 1) ]

\* ------------------------------------------------------- specification
Next ==
  \/ Setup
  \/ SetupNewFile
  \/ FirstTimeSetupTable
  \/ FirstTimeSetupAccount
  \/ \E list \in FollowerLists : SetFollowers(list)
  \/ \E id \in 0..MaxBookmarkId, blocked \in BlockedTexts : SetPermissionsForBookmark(id, blocked)
  \/ \E r \in pending : ApplyInsert(r)
  \/ \E b \in BookmarkIds, action \in Actions : BroadcastCall(b, action)
  \/ BroadcastGotFollowers
  \/ BroadcastGotBookmarkPermissions
  \/ BroadcastGotGlobalPermissions
  \/ UpdateGotGuid
  \/ DeleteGotGuid
  \/ DeleteDone
  \/ \E i \in 1..Len(deliveries) : SignAndSendGotKey(i)
  \/ \E i \in 1..Len(deliveries), ok \in BOOLEAN : FetchSettles(i, ok)

Spec == Init /\ [][Next]_vars

\* Follow and Undo building, over a database file that an earlier run of the process
\* may have left a published Note in
PersistedStores ==
  { <<>>,
    <<[ k |-> "row", guid |-> Str("g0"), bookmark_id |-> Num(1),
        message |-> JSONstringify(
          [ type |-> "Note", id |-> Permalink(domain, Str("g0")),
            attributedTo |-> ActorUri(domain, account),
            url |-> Bookmark(1).url ]) ]>> }

InitFollow ==
  /\ disabled \in BOOLEAN
  /\ db = "undefined"
  /\ followers = Null
  /\ privkey \in PrivKeys
  /\ permissions = [id \in 0..MaxBookmarkId |-> Undef]
  /\ messages \in PersistedStores
  /\ pending = {}
  /\ nextGuid = 0
  /\ call = NoCall
  /\ deliveries = <<>>
  /\ undo = NoUndo
  /\ out = NoOut

NextFollow ==
  \/ Setup
  \/ SetupNewFile
  \/ FirstTimeSetupTable
  \/ FirstTimeSetupAccount
  \/ \E r \in pending : ApplyInsert(r)
  \/ \E target \in Targets : CreateFollowMessage(target)
  \/ \E target \in Targets : CreateUnfollowMessage(target)

SpecFollow == InitFollow /\ [][NextFollow]_vars

\* The signer called on its own, at any moment of the process's life
SignerFollowers ==
  { ActorUri("good.example", "x"), Uri(<<"http:", "", "dev.example", "u", "y">>) }
SignerMessages ==
  { deleteMessage(Str("g1"), account, domain),
    followMessage(account, domain, ActorUri("good.example", "x"), 2) }

NextSigner ==
  \/ Setup
  \/ SetupNewFile
  \/ FirstTimeSetupTable
  \/ FirstTimeSetupAccount
  \/ \E follower \in SignerFollowers, message \in SignerMessages :
       SignAndSendCall(follower, message)
  \/ \E i \in 1..Len(deliveries) : SignAndSendGotKey(i)
  \/ \E i \in 1..Len(deliveries), ok \in BOOLEAN : FetchSettles(i, ok)

SpecSigner == Init /\ [][NextSigner]_vars

\* ------------------------------------------------- remote actor resolver
\* what a fetch of a remote document can come to: fetch rejects, response.json()
\* rejects, or a JSON value is parsed
FetchError == [k |-> "FetchError"]
NotJson == [k |-> "not JSON"]
TypeError == [k |-> "TypeError"]
Returned(kind, req, res) == [k |-> kind, req |-> req, outcome |-> "returned", res |-> res]
Threw(kind, req, error) == [k |-> kind, req |-> req, outcome |-> "threw", res |-> error]

\* a handle is kept as its pieces between "@": "@x@good.example" is <<"", "x", "good.example">>
Handles == { <<"", "x", "good.example">>, <<"x", "good.example">> }
\* actorUsername.split("@").slice(-1) and .slice(-2, -1), interpolated
WebfingerUrl(actorUsername) ==
  LET parsedDomain == actorUsername[Len(actorUsername)]
      parsedUsername == actorUsername[Len(actorUsername) - 1]
  IN [ host |-> parsedDomain, path |-> <<".well-known", "webfinger", "">>,
       resource |-> <<"acct:", parsedUsername, "@", parsedDomain>> ]

\* the entries a links array may hold, and the WebFinger documents built from them
Hrefs == {Str("https://good.example/u/x"), Str("https://good.example/users/x")}
LinkEntries ==
  {Null} \cup [rel : {"self", "http://webfinger.net/rel/profile-page"}, href : Hrefs \cup {Undef}]
RECURSIVE SeqsUpTo(_, _)
SeqsUpTo(S, n) ==
  IF n = 0 THEN {<<>>}
  ELSE SeqsUpTo(S, n - 1) \cup {Append(q, x) : q \in {t \in SeqsUpTo(S, n - 1) : Len(t) = n - 1}, x \in S}
WebfingerDocuments ==
  {Null, [k |-> "object", links |-> Undef]}
    \cup {[k |-> "object", links |-> Arr(l)] : l \in SeqsUpTo(LinkEntries, MaxLinks)}
WebfingerOutcomes == {FetchError, NotJson} \cup WebfingerDocuments

\* links.find((o) => o.rel === "self"): the first match, undefined when there is none;
\* reading .rel of a null entry throws
RECURSIVE Find(_, _)
Find(links, i) ==
  IF i > Len(links) THEN Undef
  ELSE IF links[i] = Null THEN TypeError
  ELSE IF links[i].rel = "self" THEN links[i]
  ELSE Find(links, i + 1)

\* lookupActorInfo with the test of selfLink.href left out
lookupActorInfoNoHrefTest(actorUsername, response) ==
  IF response \in {FetchError, NotJson} THEN Null
  ELSE IF response = Null THEN Null
  ELSE IF response.links = Undef THEN Null
  ELSE LET selfLink == Find(response.links.v, 1)
       IN IF selfLink \in {TypeError, Undef} THEN Null ELSE selfLink.href

\* lookupActorInfo(actorUsername), response being what the WebFinger fetch came to:
\* everything from the fetch on is inside the try, and the catch returns null
lookupActorInfo(actorUsername, response) ==
  IF response \in {FetchError, NotJson} THEN Null
  ELSE IF response = Null THEN Null
  ELSE IF response.links = Undef THEN Null
  ELSE LET selfLink == Find(response.links.v, 1)
       IN IF selfLink = TypeError THEN Null
          ELSE IF selfLink = Undef \/ selfLink.href = Undef THEN Null
          ELSE selfLink.href

LookupActorInfo(actorUsername, response) ==
  /\ out' = Returned("lookupActorInfo",
                     [ actorUsername |-> actorUsername, url |-> WebfingerUrl(actorUsername),
                       response |-> response ],
                     lookupActorInfo(actorUsername, response))
  /\ UNCHANGED <<disabled, db, followers, privkey, permissions, messages, pending, nextGuid,
                 call, deliveries, undo>>

\* getInboxFromActorProfile(profileUrl), response being what the fetch of
\* `${profileUrl}.json` came to: no try surrounds the two awaits
ProfileUrls == {ActorUri("good.example", "x")}
Inboxes == {Uri(<<"https:", "", "good.example", "u", "x", "inbox">>),
            Uri(<<"https:", "", "good.example", "inbox">>)}
ProfileDocuments == {Null} \cup [k : {"object"}, inbox : Inboxes \cup {Undef}]
ProfileOutcomes == {FetchError, NotJson} \cup ProfileDocuments
NoInboxError == [k |-> "Error", message |-> "Couldn't find inbox at supplied profile url"]

getInboxFromActorProfile(profileUrl, response) ==
  LET req == [profileUrl |-> profileUrl, response |-> response]
  IN IF response \in {FetchError, NotJson} THEN Threw("getInboxFromActorProfile", req, response)
     ELSE IF response = Null \/ response.inbox = Undef
       THEN Threw("getInboxFromActorProfile", req, NoInboxError)
     ELSE Returned("getInboxFromActorProfile", req, response.inbox)

GetInboxFromActorProfile(profileUrl, response) ==
  /\ out' = getInboxFromActorProfile(profileUrl, response)
  /\ UNCHANGED <<disabled, db, followers, privkey, permissions, messages, pending, nextGuid,
                 call, deliveries, undo>>

NextResolver ==
  \/ \E actorUsername \in Handles, response \in WebfingerOutcomes :
       LookupActorInfo(actorUsername, response)
  \/ \E profileUrl \in ProfileUrls, response \in ProfileOutcomes :
       GetInboxFromActorProfile(profileUrl, response)

SpecResolver == Init /\ [][NextResolver]_vars

\* --------------------------------------------------- collection renderer
\* (routes/activitypub/user.js)
\* select following from accounts limit 1, stored being what the column holds
getFollowing(stored) ==
  IF db = "undefined" THEN Undef
  ELSE IF ~HasAccounts THEN SqliteError
  ELSE IF ~HasRow THEN Undef
  ELSE stored

\* array?.length || 0
LengthOrZero(a) == IF a.k = "array" THEN Len(a.v) ELSE 0

\* the OrderedCollection both routes build around the parsed list
ListCollection(dom, name, which, list) ==
  [ type |-> "OrderedCollection",
    totalItems |-> LengthOrZero(list),
    id |-> Uri(<<"https:", "", dom, "u", name, which>>),
    first |-> [ type |-> "OrderedCollectionPage",
                totalItems |-> LengthOrZero(list),
                partOf |-> Uri(<<"https:", "", dom, "u", name, which>>),
                orderedItems |-> list,
                id |-> [uri |-> Uri(<<"https:", "", dom, "u", name, which>>), page |-> Num(1)] ] ]

\* what a handler leaves behind: a response, or a rejection without one
Responded(kind, req, res) == [k |-> kind, req |-> req, outcome |-> "json", res |-> res]
Rejected(kind, req, error) == [k |-> kind, req |-> req, outcome |-> "rejected", res |-> error]

\* GET /:name/followers
FollowersResponse(name) ==
  LET result == getFollowers
      parsed == IF result = Undef THEN Arr(<<>>) ELSE JSONparse(result)
  IN IF result = SqliteError THEN Rejected("followers", [name |-> name], SqliteError)
     ELSE Responded("followers", [name |-> name],
                    ListCollection(domain, name, "followers", parsed))

RenderFollowers(name) ==
  /\ out' = FollowersResponse(name)
  /\ UNCHANGED <<disabled, db, followers, privkey, permissions, messages, pending, nextGuid,
                 call, deliveries, undo>>

\* GET /:name/following
FollowingTexts == {Undef, Null} \cup {JSONstringify(l) : l \in FollowerLists}
FollowingResponse(name, stored) ==
  LET result == getFollowing(stored)
      followingText == IF result \in {Undef, Null} THEN JSONstringify(Arr(<<>>)) ELSE result
  IN IF result = SqliteError
     THEN Rejected("following", [name |-> name, stored |-> stored], SqliteError)
     ELSE Responded("following", [name |-> name, stored |-> stored],
                    ListCollection(domain, name, "following", JSONparse(followingText)))

RenderFollowing(name, stored) ==
  /\ out' = FollowingResponse(name, stored)
  /\ UNCHANGED <<disabled, db, followers, privkey, permissions, messages, pending, nextGuid,
                 call, deliveries, undo>>

\* GET /:name/outbox.  The route pattern has the one parameter name, so req.params
\* holds no page whatever the query string says
RouteParams(req) == [name |-> req.name]
limit == 20
Min(a, b) == IF a <= b THEN a ELSE b
\* bookmarksDb.getBookmarks(limit, offset) over a listing of count bookmarks: the
\* bookmarks at offsets offset .. offset + limit - 1 that exist, in listing order
getBookmarks(count, lim, offset) ==
  [i \in 1..(IF offset >= count THEN 0 ELSE Min(lim, count - offset)) |-> offset + i - 1]
\* page + 1: numeric for the default 1, text concatenation for a parameter string
PagePlusOne(page) == IF page.k = "number" THEN Num(page.v + 1) ELSE Str(<<page.v, "1">>)
OutboxCollection(dom, acct, page, totalBookmarkCount, items) ==
  [ type |-> "OrderedCollection",
    totalItems |-> totalBookmarkCount,
    id |-> Uri(<<"https:", "", dom, "u", acct, "outbox">>),
    first |-> [ type |-> "OrderedCollectionPage",
                totalItems |-> Len(items),
                partOf |-> Uri(<<"https:", "", dom, "u", acct, "outbox">>),
                orderedItems |-> Arr(items),
                id |-> [uri |-> Uri(<<"https:", "", dom, "u", acct, "outbox">>), page |-> page],
                next |-> [uri |-> Uri(<<"https:", "", dom, "u", acct, "outbox">>),
                          page |-> PagePlusOne(page)] ] ]

\* the handler, req being {name, query.page} and count the bookmarks the site holds;
\* each item of the page is the Note of the bookmark at that offset of the listing
OutboxResponse(req, count) ==
  LET params == RouteParams(req)
      page == IF "page" \in DOMAIN params THEN params.page ELSE Num(1)
      offset == (page.v - 1) * limit
      notes == getBookmarks(count, limit, offset)
  IN Responded("outbox", [name |-> req.name, page |-> req.page, count |-> count],
               OutboxCollection(domain, account, page, count, notes))

RenderOutbox(req, count) ==
  /\ out' = OutboxResponse(req, count)
  /\ UNCHANGED <<disabled, db, followers, privkey, permissions, messages, pending, nextGuid,
                 call, deliveries, undo>>

\* createNoteObject applied to one bookmark of the listing
TagPieces == {TagA, TagB}
TagTexts ==
  {Undef, Null, Str(<<NoTag>>)} \cup {Str(t) : t \in SeqsUpTo(TagPieces, MaxTags) \ {<<>>}}
Descriptions == {Undef, Str("description")}
CreateNoteObject(tags, description, n) ==
  /\ out' = Returned("createNoteObject", [tags |-> tags, description |-> description],
                     createNoteObject([Bookmark(1) EXCEPT !.tags = tags,
                                                          !.description = description],
                                      account, domain, n))
  /\ UNCHANGED <<disabled, db, followers, privkey, permissions, messages, pending, nextGuid,
                 call, deliveries, undo>>

Pages == 1..MaxPage
OutboxRequests == [name : {account}, page : Pages]

NextRender ==
  \/ Setup
  \/ SetupNewFile
  \/ FirstTimeSetupTable
  \/ FirstTimeSetupAccount
  \/ \E list \in FollowerLists : SetFollowers(list)
  \/ RenderFollowers(account)
  \/ \E stored \in FollowingTexts : RenderFollowing(account, stored)
  \/ \E req \in OutboxRequests, count \in 0..MaxBookmarks : RenderOutbox(req, count)
  \/ \E tags \in TagTexts, description \in Descriptions, n \in 1..MaxGuid :
       CreateNoteObject(tags, description, n)

SpecRender == Init /\ [][NextRender]_vars

\* ------------------------------------------------------- store accessors
\* the read accessors another module may call at any moment, each with the results
\* it may come to in the current state (bookmark 1, the first target)
StoreReads ==
  { "getFollowers", "getFollowing", "getPrivateKey", "getPermissionsForBookmark",
    "getGlobalPermissions", "getGuidForBookmarkId", "findMessage" }
ReadResults(op) ==
  CASE op = "getFollowers" -> {getFollowers}
    [] op = "getFollowing" -> {getFollowing(Null)}
    [] op = "getPrivateKey" -> {getPrivateKey}
    [] op = "getPermissionsForBookmark" -> {getPermissionsForBookmark(1)}
    [] op = "getGlobalPermissions" -> {getGlobalPermissions}
    [] op = "getGuidForBookmarkId" -> getGuidForBookmarkId(1)
    [] op = "findMessage" -> {findMessage(ActorUri("good.example", "x"))}

ReadStore(op) ==
  /\ \E result \in ReadResults(op) :
       out' = IF result = SqliteError THEN Threw("read", [op |-> op], result)
              ELSE Returned("read", [op |-> op], result)
  /\ UNCHANGED <<disabled, db, followers, privkey, permissions, messages, pending, nextGuid,
                 call, deliveries, undo>>

NextStore ==
  \/ Setup
  \/ SetupNewFile
  \/ FirstTimeSetupTable
  \/ FirstTimeSetupAccount
  \/ \E list \in FollowerLists : SetFollowers(list)
  \/ \E op \in StoreReads : ReadStore(op)

SpecStore == Init /\ [][NextStore]_vars

\* ================================================================ claims
\* a broadcast that got past the follower check and has returned
Broadcast(action) ==
  call.pc = "returned" /\ call.action = action /\ call.followers.k = "array"

Delivered == [i \in 1..Len(deliveries) |-> deliveries[i].follower]

\* the well-formed @user@domain entries of a permission row's blocked text
WellFormedEntries(perm) ==
  IF perm = Undef THEN {}
  ELSE IF perm.blocked = Null THEN {}
  ELSE {Str(perm.blocked.v[i]) : i \in {j \in 1..Len(perm.blocked.v) :
                                           HandleMatch(perm.blocked.v[j]) # Null}}

ConfiguredBlocklist(c) ==
  WellFormedEntries(c.bookmarkPermissions) \cup WellFormedEntries(c.globalPermissions)

Blocked(F, c) == \E P \in ConfiguredBlocklist(c) : actorMatchesUsername(F, P)

\* C1: a broadcast starts no delivery to a follower that a blocklist pattern matches,
\* and starts one to every other follower, in the order of the stored follower list.
C1_BlockedFollowersExcluded ==
  (call.pc = "returned" /\ call.followers.k = "array" /\ call.message # Undef)
    => Delivered = SelectSeq(call.followers.v, LAMBDA F : ~Blocked(F, call))

\* C2: the blocklist a broadcast builds is exactly the well-formed entries of the
\* per-bookmark blocked list together with those of the global blocked list.
C2_CombinedBlocklist ==
  (call.pc = "returned" /\ call.followers.k = "array")
    => Range(call.blocklist) = ConfiguredBlocklist(call)

\* C3: a delete broadcast for a bookmark with no stored message guid produces no
\* outbound activity, starts no delivery and leaves the store unchanged.
C3_DeleteWithoutGuidIsSilent ==
  (Broadcast("delete") /\ call.guid = Undef)
    => /\ deliveries = <<>>
       /\ call.inserted = <<>>
       /\ call.deleted = <<>>

\* C4: the message ledger holds at most one record per non-null bookmarkId.
C4_OneMessagePerBookmark ==
  \A i, j \in 1..Len(messages) :
    (messages[i].bookmark_id # Null /\ messages[i].bookmark_id = messages[j].bookmark_id)
      => i = j

\* C5: a failure while delivering to one follower (network or signing error) is caught,
\* never propagates out of the signer, and a delivery attempt is made to every follower.
C5_DeliveryFailuresAreCaught ==
  /\ \A i \in 1..Len(deliveries) : deliveries[i].status # "rejected"
  /\ (call.pc = "returned" /\ call.followers.k = "array" /\ call.message # Undef)
       => Len(deliveries) = Len(call.followers.v)

\* C6: a broadcast invoked while the stored follower list is empty or absent raises no
\* error, starts no delivery and neither inserts nor deletes a Message record.
C6_NoFollowersIsNoOp ==
  (call.pc \in {"returned", "threw"} /\ call.followers \in {SyntaxError, Null, Arr(<<>>)})
    => /\ call.pc = "returned"
       /\ deliveries = <<>>
       /\ call.inserted = <<>>
       /\ call.deleted = <<>>

\* C7: an update broadcast emits a Create whose object is the permalink of the Note
\* recorded for the bookmark when a record exists; otherwise the object is a new Note
\* and exactly one Message record for the bookmark is written, under the guid in that
\* Note's id.
NoteGuid(note) == Str(note.id.path[Len(note.id.path)])
Written == pending \cup Range(messages)
C7_UpdateObject ==
  Broadcast("update") =>
    /\ call.message.type = "Create"
    /\ IF call.guid # Undef
       THEN /\ call.message.object = Uri(<<"https:", "", domain, "m", call.guid.v>>)
            /\ \E r \in Range(messages) :
                 r.guid = call.guid /\ r.bookmark_id = Num(call.bookmark)
       ELSE /\ "type" \in DOMAIN call.message.object
            /\ call.message.object.type = "Note"
            /\ Len(call.inserted) = 1
            /\ call.inserted[1] \in Written
            /\ {r \in Written : r.guid = NoteGuid(call.message.object)} = {call.inserted[1]}
            /\ call.inserted[1].bookmark_id = Num(call.bookmark)
            /\ call.inserted[1].message = JSONstringify(call.message.object)

C7_Witness ==
  /\ Broadcast("update")
  /\ call.guid = Undef
  /\ Len(call.inserted) = 1
  /\ call.inserted[1] \in Range(messages)
  /\ Len(deliveries) = 2

\* C8: a delete broadcast for a bookmark with a stored Message record of guid g emits a
\* Delete whose object is a Tombstone with id https://{domain}/m/{g} and removes the
\* record, so that afterwards a lookup by the bookmark id returns absent.
C8_DeleteRemovesRecord ==
  (Broadcast("delete") /\ call.guid # Undef)
    => /\ call.message.type = "Delete"
       /\ call.message.object =
            [type |-> "Tombstone", id |-> Uri(<<"https:", "", domain, "m", call.guid.v>>)]
       /\ \A r \in Range(messages) : r.guid # call.guid
       /\ getGuidForBookmarkId(call.bookmark) = {Undef}

\* C9: when Follow activities for the target are persisted, the Undo's object is the
\* most recently inserted of them.
C9_UndoWrapsLastFollow ==
  (undo.called /\ undo.followMessages # Undef /\ undo.followMessages.v # <<>>)
    => /\ undo.result # Null
       /\ LET last == undo.followMessages.v[Len(undo.followMessages.v)]
          IN undo.result.object \in {last, last.message, JSONparse(last.message)}

\* C10: createUnfollowMessage for a target with no persisted Follow activity returns
\* null, raises nothing and leaves the store unchanged.
FollowPersisted(target) ==
  \E i \in 1..Len(messages) :
    /\ messages[i].message # Null
    /\ messages[i].message.v[2].type = "Follow"
    /\ messages[i].message.v[2].object = target
C10_NothingToUndo ==
  [][\A target \in Targets :
       (CreateUnfollowMessage(target) /\ ~FollowPersisted(target))
         => /\ undo'.outcome = "returned"
            /\ undo'.result = Null
            /\ store' = store]_vars

C10_Witness ==
  /\ undo.called
  /\ undo.result = Null
  /\ undo.messageRows # Undef
  /\ Len(undo.messageRows.v) = 2
  /\ undo.followMessages = Arr(<<>>)

\* C11: when the store has no private key on record for the local actor, the signer
\* issues no request and returns normally: the task ends as "no key", it is never
\* rejected and never reaches fetch
C11_NoKeyNoDelivery ==
  [][\A i \in 1..Len(deliveries) :
       (SignAndSendGotKey(i) /\ ~HasRow) => deliveries'[i].status = "no key"]_vars

\* C12: for the followers, following and outbox collections and every store content,
\* the rendered top-level totalItems equals first.totalItems; the outbox page holds at
\* most totalItems items and at most the page size of 20
C12_TotalsAgree ==
  (out.k \in {"followers", "following", "outbox"} /\ out.outcome = "json") =>
    /\ out.res.totalItems = out.res.first.totalItems
    /\ out.k = "outbox" =>
         /\ Len(out.res.first.orderedItems.v) <= out.res.totalItems
         /\ Len(out.res.first.orderedItems.v) <= limit

\* C13: an outbox request for page p >= 1 over N bookmarks returns the Notes of the
\* bookmarks at offsets (p-1)*20 .. min(p*20, N)-1, with first.id ending ?page=p and
\* next ending ?page=(p+1)
C13_OutboxPage ==
  out.k = "outbox" =>
    LET p == out.req.page
        N == out.req.count
        last == Min(p * limit, N) - 1
    IN /\ out.res.first.orderedItems.v =
            [i \in 1..(last - (p - 1) * limit + 1) |-> (p - 1) * limit + i - 1]
       /\ out.res.first.id.page = Num(p)
       /\ out.res.first.next.page = Num(p + 1)

\* the rel == "self" entries of a WebFinger outcome that carry an href
SelfHrefs(response) ==
  IF response \in {FetchError, NotJson, Null} THEN {}
  ELSE IF response.links = Undef THEN {}
  ELSE { l.href : l \in { e \in Range(response.links.v) :
                            e # Null /\ e.rel = "self" /\ e.href # Undef } }

\* C14 as stated: lookupActorInfo never throws, and it returns the href of the
\* rel == "self" link exactly when such a link with an href is present, null otherwise
C14_SelfLinkExactlyWhenPresent ==
  out.k = "lookupActorInfo" =>
    /\ out.outcome = "returned"
    /\ IF SelfHrefs(out.req.response) = {} THEN out.res = Null
       ELSE out.res \in SelfHrefs(out.req.response)

\* the position of the first rel == "self" entry, 0 when there is none or when the
\* document has no links array
FirstSelf(response) ==
  IF response \in {FetchError, NotJson, Null} THEN 0
  ELSE IF response.links = Undef THEN 0
  ELSE LET l == response.links.v
           hits == {i \in 1..Len(l) : l[i] # Null /\ l[i].rel = "self"}
       IN IF hits = {} THEN 0 ELSE CHOOSE i \in hits : \A j \in hits : i <= j

\* C14 amended: lookupActorInfo never throws; it returns the href of the first
\* rel == "self" entry exactly when that entry has an href and no entry before it
\* is null, and it returns null for every other outcome
C14_FirstSelfLink ==
  out.k = "lookupActorInfo" =>
    LET i == FirstSelf(out.req.response)
        l == out.req.response.links.v
    IN /\ out.outcome = "returned"
       /\ IF i # 0 /\ l[i].href # Undef /\ \A j \in 1..(i - 1) : l[j] # Null
          THEN out.res = l[i].href
          ELSE out.res = Null

\* a lookup over a document whose links hold two self entries, the first without href
C14_Witness ==
  /\ out.k = "lookupActorInfo"
  /\ FirstSelf(out.req.response) = 1
  /\ Len(out.req.response.links.v) = 2
  /\ out.req.response.links.v[1].href = Undef
  /\ SelfHrefs(out.req.response) # {}
  /\ out.res = Null

\* C15: getInboxFromActorProfile returns the inbox when the profile has one and
\* raises the explicit error when it has none; no other case raises: an unreachable
\* or malformed profile yields null
C15_OnlyMissingInboxRaises ==
  out.k = "getInboxFromActorProfile" =>
    LET response == out.req.response
    IN IF response \in {FetchError, NotJson}
       THEN out.outcome = "returned" /\ out.res = Null
       ELSE IF response # Null /\ response.inbox # Undef
       THEN out.outcome = "returned" /\ out.res = response.inbox
       ELSE out.outcome = "threw" /\ out.res = NoInboxError

\* C16: every activity the broadcaster emits carries an id minted from a fresh guid:
\* it has an id, and that id is never the id of the object it refers to nor the
\* permalink of a record the store holds
C16_FreshActivityIds ==
  LET m == call.message
  IN m # Undef =>
       /\ "id" \in DOMAIN m
       /\ "id" \in DOMAIN m.object => m.id # m.object.id
       /\ \A i \in 1..Len(messages) : m.id # Permalink(domain, messages[i].guid)

\* the tags of a tags text: its non-empty pieces
TagsOf(tags) == SelectSeq(SplitTags(tags), LAMBDA t : t # NoTag)

\* C17: for a bookmark with n >= 0 space-separated tags the Note's tag array has
\* exactly n entries {type: 'Hashtag', href, name} in the same order, and the content
\* ends with one anchor per tag, after the description
C17_TagsAndAnchors ==
  out.k = "createNoteObject" =>
    LET t == TagsOf(out.req.tags)
        n == Len(t)
        content == out.res.content
    IN /\ out.res.tag = [ i \in 1..n |->
                            [type |-> "Hashtag", href |-> TagHref(domain, t[i]), name |-> t[i]] ]
       /\ Len(content) >= 3 + n
       /\ \A i \in 1..n :
            content[Len(content) - n + i] = [el |-> "a", href |-> TagHref(domain, t[i]), text |-> t[i]]

\* the path of a URL: what follows scheme and host
PathOf(uri) == <<"">> \o SubSeq(uri.path, 4, Len(uri.path))

Issued == {i \in 1..Len(deliveries) : deliveries[i].request # Undef}

\* C18: every delivery is consistent with what was signed: the POST goes to the inbox
\* whose path is the (request-target) of the signing string, the Host, Date and Digest
\* headers are the signed values, the digest is over the body sent, the Signature
\* header lists (request-target) host date digest under keyId https://{domain}/u/{name},
\* and two signings of the same message for the same inbox agree
C18_RequestMatchesSigned ==
  /\ \A i \in Issued :
       LET request == deliveries[i].request
           signed == deliveries[i].stringToSign
       IN /\ request.method = "POST"
          /\ request.url = deliveries[i].inbox
          /\ signed.requestTarget = <<"post", PathOf(request.url)>>
          /\ request.Host = signed.host
          /\ request.Date = signed.date
          /\ request.Digest = signed.digest
          /\ request.Digest = Sha256(request.body)
          /\ request.body = JSONstringify(deliveries[i].message)
          /\ request.Signature.headers = <<"(request-target)", "host", "date", "digest">>
          /\ request.Signature.keyId = ActorUri(domain, account)
  /\ \A i, j \in Issued :
       (deliveries[i].message = deliveries[j].message /\ deliveries[i].inbox = deliveries[j].inbox)
         => /\ deliveries[i].request.Digest = deliveries[j].request.Digest
            /\ deliveries[i].request.Signature = deliveries[j].request.Signature

\* C19: broadcast is fire-and-forget: in the step in which the broadcast returns, one
\* delivery per follower has been initiated and none has been waited for; afterwards
\* every delivery can take its next step whatever the state of the others, so a
\* delivery that hangs blocks none and they complete in any order
C19_FireAndForget ==
  /\ [][(call.pc # "returned" /\ call'.pc = "returned" /\ call'.message # Undef) =>
          /\ Len(deliveries') = Len(call'.followers.v)
          /\ \A i \in 1..Len(deliveries') : deliveries'[i].status = "getPrivateKey"]_vars
  /\ [](\A i \in 1..Len(deliveries) :
          /\ deliveries[i].status = "getPrivateKey" => ENABLED SignAndSendGotKey(i)
          /\ deliveries[i].status = "fetch" => ENABLED FetchSettles(i, TRUE))

\* the broadcast has returned, the second delivery has completed and the first is
\* still waiting for its response
C19_Witness ==
  /\ call.pc = "returned"
  /\ Len(deliveries) = 2
  /\ deliveries[1].status = "fetch"
  /\ deliveries[2].status = "sent"

\* no record exists for a read: no account row, no permission row, no message row
NoRecord(op) ==
  CASE op \in {"getFollowers", "getFollowing", "getPrivateKey"} -> ~HasRow
    [] op = "getPermissionsForBookmark" -> permissions[1] = Undef
    [] op = "getGlobalPermissions" -> permissions[0] = Undef
    [] op = "getGuidForBookmarkId" -> RowsForBookmark(1) = <<>>
    [] op = "findMessage" -> messages = <<>>
Absent == {Undef, Arr(<<>>)}

\* C20: every store read returns an absent result rather than failing whenever no
\* record exists, at every moment of the process: before setup has assigned the
\* handle, and during first-time setup before the tables and the account row exist
C20_ReadsNeverFail ==
  [][\A op \in StoreReads :
       (ReadStore(op) /\ NoRecord(op)) => (out'.outcome = "returned" /\ out'.res \in Absent)]_vars

\* C21: the Message record written while a Create activity is built is in the store
\* by the time the broadcast that built it has returned, so that a broadcast for the
\* same bookmark that starts afterwards finds it
C21_InsertVisibleOnReturn ==
  (call.pc = "returned" /\ call.inserted # <<>>) =>
    \A i \in 1..Len(call.inserted) : call.inserted[i] \in Range(messages)

\* the Follow activities the store holds or is about to hold
FollowActivities ==
  { JSONparse(r.message) : r \in { x \in Range(messages) \cup pending :
                                      x.message # Null /\ JSONparse(x.message).type = "Follow" } }

\* C22: every activity the builder makes, of every type, has as its actor the local
\* actor URI https://{domain}/u/{account}, which is also the keyId of the Signature
\* header and the id of the served actor document
C22_ActorIsLocalActor ==
  LET local == ActorUri(domain, account)
  IN /\ actorJson(account, domain).id = local
     /\ SignatureHeader(account, domain, Undef, Undef).keyId = local
     /\ call.message # Undef => call.message.actor = local
     /\ \A m \in FollowActivities : m.actor = local
     /\ undo.result \notin {Undef, Null} => undo.result.actor = local

====
